---- MODULE Spec2Model ----
(***************************************************************************)
(* State-machine model of the pica-cart-magic storefront: the CartProvider *)
(* context (device-local cart, remote cart_items rows, reconciliation on   *)
(* sign-in, realtime reloads), the order tables with their row-level       *)
(* policies, and the order-placement workflow.                             *)
(***************************************************************************)
EXTENDS Integers, Sequences, FiniteSets, TLC

\* ---------------------------------------------------------------- bounds
MaxQty == 2          \* largest quantity argument / stored quantity explored
MaxLoads == 2        \* loadCart() requests in flight at once
MaxEvents == 1       \* undelivered realtime notifications
MaxOrders == 1       \* orders placed in one behaviour
MaxExtraLines == 1   \* order lines inserted by hand after placement
MaxPlaced == 2       \* orders placed where order ids are compared

NoUser == "none"                 \* user === null
NoText == [absent |-> TRUE]      \* localStorage.getItem(...) === null
NoProduct == [missing |-> TRUE]  \* .single() found no row
NoLoad == [state |-> "free"]
Unparsable == [garbage |-> TRUE] \* a stored text JSON.parse rejects
Users == {"u1"}
Admin == "admin"
Actors == Users \cup {Admin}
ProductIds == {"A", "B", "X"}
\* The values the direct table requests are tried with.
ProductEdits == {[title |-> "tX", price |-> 50]}
LineEdits == {[title |-> "tX", price |-> 50, qty |-> 2]}
CallIds == {1, 2}

VARIABLES
  user,          \* useAuth().user: NoUser or the signed-in user's id
  localStorage,  \* value under 'picamart-cart': NoText or a JSON text
  items,         \* React state `items`: the rendered cart lines
  loading,       \* React state `loading`
  cart_items,    \* rows of public.cart_items
  products,      \* rows of public.products, by id (NoProduct: no such row)
  orders,        \* rows of public.orders
  order_items,   \* rows of public.order_items
  calls,         \* the asynchronous cart calls of this session, by slot
  loads,         \* the loadCart() requests in flight, by slot
  events,        \* realtime notifications not yet delivered to this session
  lastOp,        \* history: the call that returned last since the user changed
  ProductGrid,   \* the catalog component: its `products` and `loading` state
  BannerCarousel, \* the carousel: its `banners`, `currentIndex`, `loading` state
  banners,       \* rows of public.banners
  rpcs           \* the generate_order_id() calls in progress, by transaction

\* The storefront components and the order-id function, which the cart
\* operations leave alone.
shopVars == <<ProductGrid, BannerCarousel, banners, rpcs>>

vars == <<user, localStorage, items, loading, cart_items, products, orders,
          order_items, calls, loads, events, lastOp, shopVars>>

\* ------------------------------------------------------------- CartItem
CartItem(productId, title, price, qty) ==
  [product_id |-> productId, title |-> title, price |-> price, qty |-> qty]

\* JSON.stringify / JSON.parse of a CartItem array: the text is a value of
\* its own kind, the key being absent is NoText.
JSONstringify(lines) == [json |-> lines]

JSONparse(text) == text.json

\* JSON.parse(text) returns; it throws a SyntaxError otherwise.
Parses(text) == text # Unparsable

\* A badge that counts lines instead of quantities.
totalItemsOf_CountLines(lines) == Len(lines)

RECURSIVE totalItemsOf(_)
totalItemsOf(lines) ==
  IF lines = <<>> THEN 0
  ELSE totalItemsOf(SubSeq(lines, 1, Len(lines) - 1)) + lines[Len(lines)].qty

\* A total that forgets the quantities.
RECURSIVE totalAmountOf_IgnoresQty(_)
totalAmountOf_IgnoresQty(lines) ==
  IF lines = <<>> THEN 0
  ELSE Head(lines).price + totalAmountOf_IgnoresQty(Tail(lines))

RECURSIVE totalAmountOf(_)
totalAmountOf(lines) ==
  IF lines = <<>> THEN 0
  ELSE totalAmountOf(SubSeq(lines, 1, Len(lines) - 1))
       + lines[Len(lines)].price * lines[Len(lines)].qty

totalItems == totalItemsOf(items)

totalAmount == totalAmountOf(items)

\* Array.prototype.findIndex on product_id, 1-based; 0 when no line matches.
findIndex(currentItems, productId) ==
  IF \E i \in 1..Len(currentItems) : currentItems[i].product_id = productId
  THEN CHOOSE i \in 1..Len(currentItems) :
         /\ currentItems[i].product_id = productId
         /\ \A j \in 1..(i - 1) : currentItems[j].product_id # productId
  ELSE 0

\* parseFloat(price.toString()) on a NUMERIC column; '0' when the join is empty.
parsePrice(product) == IF product = NoProduct THEN 0 ELSE product.price

titleOf(product) == IF product = NoProduct THEN "" ELSE product.title

\* ------------------------------------------------------- backend tables
CartRow(u, productId, qty) ==
  [user_id |-> u, product_id |-> productId, qty |-> qty]

\* A policy that admits every authenticated request.
CartPolicy_Open(uid, row) == TRUE

\* POLICY "Users can manage own cart": FOR ALL USING (auth.uid() = user_id).
CartPolicy(uid, row) == uid = row.user_id

\* cart_items.product_id REFERENCES products(id).
ProductExists(productId) == products[productId] # NoProduct

RowQtyOf(rows, row) ==
  LET same == {r \in rows : r.user_id = row.user_id /\ r.product_id = row.product_id}
  IN IF same = {} THEN 0 ELSE (CHOOSE r \in same : TRUE).qty

\* An upsert that adds the new qty to the conflicting row's.
upsert_Additive(rows, row) ==
  {r \in rows : ~(r.user_id = row.user_id /\ r.product_id = row.product_id)}
    \cup {[row EXCEPT !.qty = @ + RowQtyOf(rows, row)]}

\* An insert that ignores the unique key.
upsert_PlainInsert(rows, row) == rows \cup {row}

\* .upsert(row, {onConflict: 'user_id,product_id'}) under UNIQUE(user_id, product_id):
\* the conflicting row, if any, takes the new qty.
upsert(rows, row) ==
  {r \in rows : ~(r.user_id = row.user_id /\ r.product_id = row.product_id)}
    \cup {row}

\* .update({qty}).eq('user_id', u).eq('product_id', p); rows the policy hides
\* are not touched.
updateQty(rows, uid, u, productId, qty) ==
  {IF r.user_id = u /\ r.product_id = productId /\ CartPolicy(uid, r)
     THEN [r EXCEPT !.qty = qty] ELSE r : r \in rows}

\* .delete().eq('user_id', u).eq('product_id', p)
deleteLine(rows, uid, u, productId) ==
  {r \in rows : ~(r.user_id = u /\ r.product_id = productId /\ CartPolicy(uid, r))}

\* A delete that spares the rows of product "A".
deleteAll_KeepsA(rows, uid, u) ==
  {r \in rows : ~(r.user_id = u /\ CartPolicy(uid, r) /\ r.product_id # "A")}

\* .delete().eq('user_id', u)
deleteAll(rows, uid, u) ==
  {r \in rows : ~(r.user_id = u /\ CartPolicy(uid, r))}

\* select id, product_id, qty, products(title, price, images) .eq('user_id', u),
\* mapped to CartItem (lines 101-108).
selectCart(rows, uid, u) ==
  {CartItem(r.product_id, titleOf(products[r.product_id]),
            parsePrice(products[r.product_id]), r.qty) :
     r \in {x \in rows : x.user_id = u /\ CartPolicy(uid, x)}}

\* The orders in which a select without ORDER BY may return a set of rows.
Orderings(S) ==
  {s \in [1..Cardinality(S) -> S] : \A i, j \in 1..Cardinality(S) : s[i] = s[j] => i = j}

\* --------------------------------------------------- local-cart helpers
\* A cart that takes every add as a new line.
addLine_AlwaysPush(currentItems, productId, product, qty) ==
  Append(currentItems, [product_id |-> productId, title |-> product.title,
                        price |-> product.price, qty |-> qty])

\* lines 155-168: increment the existing line or push a new one.
addLine(currentItems, productId, product, qty) ==
  LET existingIndex == findIndex(currentItems, productId) IN
  IF existingIndex >= 1
  THEN [currentItems EXCEPT ![existingIndex].qty = @ + qty]
  ELSE Append(currentItems,
              CartItem(productId, product.title, parsePrice(product), qty))

\* A map that adds the new quantity to the old one.
mapQty_Additive(currentItems, productId, qty) ==
  [i \in 1..Len(currentItems) |->
     IF currentItems[i].product_id = productId
     THEN [currentItems[i] EXCEPT !.qty = @ + qty] ELSE currentItems[i]]

\* lines 223-225: currentItems.map(item => item.product_id === productId ? {...item, qty} : item)
mapQty(currentItems, productId, qty) ==
  [i \in 1..Len(currentItems) |->
     IF currentItems[i].product_id = productId
     THEN [currentItems[i] EXCEPT !.qty = qty] ELSE currentItems[i]]

\* line 253: currentItems.filter(item => item.product_id !== productId)
RECURSIVE filterOut(_, _)
filterOut(currentItems, productId) ==
  IF currentItems = <<>> THEN <<>>
  ELSE LET rest == filterOut(Tail(currentItems), productId) IN
       IF Head(currentItems).product_id # productId
       THEN <<Head(currentItems)>> \o rest ELSE rest

\* localCart ? JSON.parse(localCart) : []
readLocal(text) == IF text # NoText THEN JSONparse(text) ELSE <<>>

\* A guard that lets 0 through to the update.
delegatesToRemove_Negative(qty) == qty < 0

\* line 215: the quantities updateQuantity hands over to removeFromCart.
delegatesToRemove(qty) == qty <= 0

\* ---------------------------------------------------------------- calls
IdleCall ==
  [op |-> "idle", pc |-> "idle", user |-> NoUser, productId |-> "none", qty |-> 0,
   currentItems |-> <<>>, idx |-> 0, err |-> FALSE, toast |-> "none",
   logged |-> FALSE, via |-> "ui"]

\* A call as it starts, with its closure's user.
NewCall(op, pc, u, productId, qty) ==
  [IdleCall EXCEPT !.op = op, !.pc = pc, !.user = u, !.productId = productId,
                   !.qty = qty]

AllIdle == \A c \in CallIds : calls[c].pc = "idle"

FreeSlot(c) ==
  /\ calls[c].pc = "idle"
  /\ \A d \in CallIds : d < c => calls[d].pc # "idle"

FreeLoad(l) ==
  /\ loads[l] = NoLoad
  /\ \A k \in 1..MaxLoads : k < l => loads[k] # NoLoad

\* A change of u's rows is announced to the session subscribed with user_id = u.
Subscribed(u) == user # NoUser /\ user = u

Announce(u, changed) ==
  IF Subscribed(u) /\ changed
  THEN events < MaxEvents /\ events' = events + 1
  ELSE events' = events

QtyLine(lines, productId) ==
  LET i == findIndex(lines, productId) IN IF i = 0 THEN 0 ELSE lines[i].qty

\* Transactions that call generate_order_id().
Txns == {1, 2}

NoRpc == [pc |-> "idle"]

\* useState([]), useState(true) of ProductGrid (lines 338-339).
NewProductGrid == [products |-> <<>>, loading |-> TRUE]

\* useState([]), useState(0), useState(true) of BannerCarousel (lines 17-19).
NewBannerCarousel == [banners |-> <<>>, currentIndex |-> 0, loading |-> TRUE]

\* The storefront components as they mount, no banner row, no call in progress.
InitShop ==
  /\ ProductGrid = NewProductGrid
  /\ BannerCarousel = NewBannerCarousel
  /\ banners = {}
  /\ rpcs = [t \in Txns |-> NoRpc]

Init ==
  /\ InitShop
  /\ user = NoUser
  /\ localStorage = NoText
  /\ items = <<>>
  /\ loading = FALSE
  /\ cart_items = {}
  /\ products = [p \in ProductIds |->
                   IF p = "A" THEN [title |-> "tA", price |-> 100]
                   ELSE IF p = "B" THEN [title |-> "tB", price |-> 50]
                   ELSE NoProduct]
  /\ orders = {}
  /\ order_items = {}
  /\ calls = [c \in CallIds |-> IdleCall]
  /\ loads = [l \in 1..MaxLoads |-> NoLoad]
  /\ events = 0
  /\ lastOp = "none"

UpdateQtys == -1..MaxQty
AddQtys == 1..MaxQty

\* ------------------------------------------------------------- loadCart
\* lines 80-97: setLoading(true) and the select is sent.
startLoad(l, u) ==
  [loads EXCEPT ![l] = [state |-> "sent", user |-> u, data |-> <<>>]]

\* The backend answers the select: the user's rows as the policy shows them
\* to the session, in some order, or an error.
LoadExecute(l) ==
  /\ loads[l].state = "sent"
  /\ \/ \E data \in Orderings(selectCart(cart_items, user, loads[l].user)) :
          loads' = [loads EXCEPT ![l].state = "ok", ![l].data = data]
     \/ loads' = [loads EXCEPT ![l].state = "error"]
  /\ UNCHANGED shopVars
  /\ UNCHANGED <<user, localStorage, items, loading, cart_items, products,
                 orders, order_items, calls, events, lastOp>>

\* lines 99-115: setItems(cartItems), or console.error; finally setLoading(false).
LoadResolve(l) ==
  /\ loads[l].state \in {"ok", "error"}
  /\ items' = IF loads[l].state = "ok" THEN loads[l].data ELSE items
  /\ loading' = FALSE
  /\ loads' = [loads EXCEPT ![l] = NoLoad]
  /\ UNCHANGED shopVars
  /\ UNCHANGED <<user, localStorage, cart_items, products, orders, order_items,
                 calls, events, lastOp>>

\* lines 69-71: a notification on the channel calls loadCart().
RealtimeDeliver(l) ==
  /\ events > 0
  /\ user # NoUser
  /\ FreeLoad(l)
  /\ events' = events - 1
  /\ loads' = startLoad(l, user)
  /\ loading' = TRUE
  /\ UNCHANGED shopVars
  /\ UNCHANGED <<user, localStorage, items, cart_items, products, orders,
                 order_items, calls, lastOp>>

\* -------------------------------------------- addToCart, authenticated
\* What follows the end of addToCart's body: the caller is the UI, or the
\* for-loop of syncLocalCart (lines 132-136), which goes on to the next local
\* line and removes the key after the last one.
afterAdd(call) ==
  IF call.op = "syncLocalCart"
  THEN IF call.idx < Len(call.currentItems)
       THEN [call EXCEPT !.idx = @ + 1, !.pc = "upsert",
                         !.productId = call.currentItems[call.idx + 1].product_id,
                         !.qty = call.currentItems[call.idx + 1].qty]
       ELSE [call EXCEPT !.pc = "done"]
  ELSE [call EXCEPT !.pc = "done"]

\* A reconciliation that keeps the local cart once a merge has failed.
syncEnds_UnlessFailed(call) ==
  call.op = "syncLocalCart" /\ call.idx >= Len(call.currentItems) /\ ~call.err

syncEnds(call) ==
  call.op = "syncLocalCart" /\ call.idx >= Len(call.currentItems)

\* lines 180-191 and 204-210: the upsert is answered.
AddUpsert(c) ==
  /\ calls[c].pc = "upsert"
  /\ \E ok \in BOOLEAN :
       LET call == calls[c]
           row == CartRow(call.user, call.productId, call.qty)
           accepted == ok /\ CartPolicy(user, row) /\ ProductExists(call.productId)
       IN IF accepted
          THEN /\ cart_items' = upsert(cart_items, row)
               /\ Announce(call.user, TRUE)
               /\ calls' = [calls EXCEPT ![c].pc = "selectTitle"]
               /\ UNCHANGED localStorage
          ELSE /\ calls' = [calls EXCEPT ![c] =
                              afterAdd([call EXCEPT !.err = TRUE, !.logged = TRUE,
                                                    !.toast = "error"])]
               /\ localStorage' = IF syncEnds(call) THEN NoText ELSE localStorage
               /\ UNCHANGED <<cart_items, events>>
  /\ UNCHANGED shopVars
  /\ UNCHANGED <<user, items, loading, products, orders, order_items, loads, lastOp>>

\* lines 193-203: the title is fetched for the toast.
AddSelectTitle(c) ==
  /\ calls[c].pc = "selectTitle"
  /\ calls' = [calls EXCEPT ![c] = afterAdd([calls[c] EXCEPT !.toast = "added"])]
  /\ localStorage' = IF syncEnds(calls[c]) THEN NoText ELSE localStorage
  /\ UNCHANGED shopVars
  /\ UNCHANGED <<user, items, loading, cart_items, products, orders, order_items,
                 loads, events, lastOp>>

\* ----------------------------------------------------- syncLocalCart
\* lines 125-138, up to the first await.
startSync(u) ==
  IF localStorage = NoText
  THEN NewCall("syncLocalCart", "done", u, "none", 0)
  ELSE IF ~Parses(localStorage)
  THEN NewCall("syncLocalCart", "thrown", u, "none", 0)
  ELSE LET localItems == JSONparse(localStorage) IN
       IF localItems = <<>>
       THEN NewCall("syncLocalCart", "done", u, "none", 0)
       ELSE [NewCall("syncLocalCart", "upsert", u, localItems[1].product_id,
                     localItems[1].qty)
               EXCEPT !.currentItems = localItems, !.idx = 1]

\* lines 46-53 and 56-78 when user becomes non-null: loadCart(), syncLocalCart(),
\* and the channel is subscribed.
SignIn(u, c, l) ==
  /\ user = NoUser
  /\ FreeSlot(c)
  /\ FreeLoad(l)
  /\ user' = u
  /\ loads' = startLoad(l, u)
  /\ loading' = TRUE
  /\ calls' = [calls EXCEPT ![c] = startSync(u)]
  /\ localStorage' = IF /\ localStorage # NoText
                        /\ Parses(localStorage)
                        /\ JSONparse(localStorage) = <<>>
                     THEN NoText ELSE localStorage
  /\ events' = 0
  /\ lastOp' = "none"
  /\ UNCHANGED shopVars
  /\ UNCHANGED <<items, cart_items, products, orders, order_items>>

\* lines 118-123
loadLocalCart ==
  IF localStorage # NoText /\ Parses(localStorage)
  THEN JSONparse(localStorage) ELSE items

\* lines 46-53 and 75-77 when user becomes null: loadLocalCart(), and the
\* channel is removed.
SignOut ==
  /\ user # NoUser
  /\ user' = NoUser
  /\ items' = loadLocalCart
  /\ events' = 0
  /\ lastOp' = IF Parses(localStorage) THEN "none" ELSE "loadLocalCart threw"
  /\ UNCHANGED shopVars
  /\ UNCHANGED <<localStorage, loading, cart_items, products, orders, order_items,
                 calls, loads>>

\* ------------------------------------------------------------ addToCart
\* lines 140-151 (anonymous: the local cart is read, the product select is
\* sent) and 180-189 (authenticated: the upsert is sent).
AddToCart(c, productId, qty) ==
  /\ FreeSlot(c)
  /\ IF user = NoUser
     THEN IF Parses(localStorage)
          THEN /\ QtyLine(readLocal(localStorage), productId) + qty <= MaxQty
               /\ QtyLine(readLocal(localStorage), productId) + qty >= 0 - MaxQty
               /\ calls' = [calls EXCEPT ![c] =
                              [NewCall("addToCart", "selectProduct", user, productId, qty)
                                 EXCEPT !.currentItems = readLocal(localStorage)]]
          ELSE calls' = [calls EXCEPT ![c] =
                           NewCall("addToCart", "thrown", user, productId, qty)]
     ELSE calls' = [calls EXCEPT ![c] =
                      NewCall("addToCart", "upsert", user, productId, qty)]
  /\ UNCHANGED shopVars
  /\ UNCHANGED <<user, localStorage, items, loading, cart_items, products, orders,
                 order_items, loads, events, lastOp>>

\* lines 153-177: the product select is answered; data is null when the row is
\* missing or the request failed.
AddSelectProduct(c) ==
  /\ calls[c].pc = "selectProduct"
  /\ \E ok \in BOOLEAN :
       LET call == calls[c]
           product == IF ok THEN products[call.productId] ELSE NoProduct
       IN IF product = NoProduct
          THEN /\ calls' = [calls EXCEPT ![c].pc = "done"]
               /\ UNCHANGED <<localStorage, items>>
          ELSE LET currentItems ==
                     addLine(call.currentItems, call.productId, product, call.qty)
               IN /\ localStorage' = JSONstringify(currentItems)
                  /\ items' = currentItems
                  /\ calls' = [calls EXCEPT ![c].pc = "done", ![c].toast = "added"]
  /\ UNCHANGED shopVars
  /\ UNCHANGED <<user, loading, cart_items, products, orders, order_items, loads,
                 events, lastOp>>

\* ------------------------------------------------------- removeFromCart
\* lines 249-264, entered by removeFromCart or by updateQuantity (line 216):
\* the anonymous path completes at once, the authenticated one sends the delete.
removeBody(c, op, productId, qty) ==
  IF user = NoUser /\ ~Parses(localStorage)
  THEN /\ calls' = [calls EXCEPT ![c] = NewCall(op, "thrown", user, productId, qty)]
       /\ UNCHANGED <<localStorage, items>>
  ELSE IF user = NoUser
  THEN LET updatedItems == filterOut(readLocal(localStorage), productId) IN
       /\ localStorage' = JSONstringify(updatedItems)
       /\ items' = updatedItems
       /\ calls' = [calls EXCEPT ![c] =
                      [NewCall(op, "done", user, productId, qty)
                         EXCEPT !.currentItems = readLocal(localStorage)]]
  ELSE /\ calls' = [calls EXCEPT ![c] = NewCall(op, "delete", user, productId, qty)]
       /\ UNCHANGED <<localStorage, items>>

RemoveFromCart(c, productId) ==
  /\ FreeSlot(c)
  /\ removeBody(c, "removeFromCart", productId, 0)
  /\ UNCHANGED shopVars
  /\ UNCHANGED <<user, loading, cart_items, products, orders, order_items, loads,
                 events, lastOp>>

\* lines 266-279: the delete is answered.
RemoveDelete(c) ==
  /\ calls[c].pc = "delete"
  /\ \E ok \in BOOLEAN :
       LET call == calls[c]
           rows == deleteLine(cart_items, user, call.user, call.productId)
       IN IF ok
          THEN /\ cart_items' = rows
               /\ Announce(call.user, rows # cart_items)
               /\ calls' = [calls EXCEPT ![c].pc = "done", ![c].toast = "removed"]
          ELSE /\ calls' = [calls EXCEPT ![c].pc = "done", ![c].err = TRUE,
                                         ![c].logged = TRUE, ![c].toast = "error"]
               /\ UNCHANGED <<cart_items, events>>
  /\ UNCHANGED shopVars
  /\ UNCHANGED <<user, localStorage, items, loading, products, orders, order_items,
                 loads, lastOp>>

\* ------------------------------------------------------- updateQuantity
\* lines 214-236
UpdateQuantity(c, productId, qty) ==
  /\ FreeSlot(c)
  /\ IF delegatesToRemove(qty)
     THEN removeBody(c, "updateQuantity", productId, qty)
     ELSE IF user = NoUser /\ ~Parses(localStorage)
     THEN /\ calls' = [calls EXCEPT ![c] =
                         NewCall("updateQuantity", "thrown", user, productId, qty)]
          /\ UNCHANGED <<localStorage, items>>
     ELSE IF user = NoUser
     THEN LET updatedItems == mapQty(readLocal(localStorage), productId, qty) IN
          /\ localStorage' = JSONstringify(updatedItems)
          /\ items' = updatedItems
          /\ calls' = [calls EXCEPT ![c] =
                         [NewCall("updateQuantity", "done", user, productId, qty)
                            EXCEPT !.currentItems = readLocal(localStorage)]]
     ELSE /\ calls' = [calls EXCEPT ![c] =
                         NewCall("updateQuantity", "update", user, productId, qty)]
          /\ UNCHANGED <<localStorage, items>>
  /\ UNCHANGED shopVars
  /\ UNCHANGED <<user, loading, cart_items, products, orders, order_items, loads,
                 events, lastOp>>

\* lines 238-246: the update is answered.
UpdateUpdate(c) ==
  /\ calls[c].pc = "update"
  /\ \E ok \in BOOLEAN :
       LET call == calls[c]
           rows == updateQty(cart_items, user, call.user, call.productId, call.qty)
           matched == \E r \in cart_items :
                        /\ r.user_id = call.user
                        /\ r.product_id = call.productId
                        /\ CartPolicy(user, r)
       IN IF ok
          THEN /\ cart_items' = rows
               /\ Announce(call.user, matched)
               /\ calls' = [calls EXCEPT ![c].pc = "done"]
          ELSE /\ calls' = [calls EXCEPT ![c].pc = "done", ![c].err = TRUE,
                                         ![c].logged = TRUE, ![c].toast = "error"]
               /\ UNCHANGED <<cart_items, events>>
  /\ UNCHANGED shopVars
  /\ UNCHANGED <<user, localStorage, items, loading, products, orders, order_items,
                 loads, lastOp>>

\* ------------------------------------------------------------ clearCart
\* A clearCart that also stores an empty array on the device when signed in.
clearBody_AlsoLocal(c, via) ==
  IF user = NoUser
  THEN /\ localStorage' = NoText
       /\ items' = <<>>
       /\ calls' = [calls EXCEPT ![c] =
                      [NewCall("clearCart", "done", user, "none", 0) EXCEPT !.via = via]]
  ELSE /\ calls' = [calls EXCEPT ![c] =
                      [NewCall("clearCart", "deleteAll", user, "none", 0)
                         EXCEPT !.via = via]]
       /\ localStorage' = JSONstringify(<<>>)
       /\ UNCHANGED items

\* lines 282-293
clearBody(c, via) ==
  IF user = NoUser
  THEN /\ localStorage' = NoText
       /\ items' = <<>>
       /\ calls' = [calls EXCEPT ![c] =
                      [NewCall("clearCart", "done", user, "none", 0) EXCEPT !.via = via]]
  ELSE /\ calls' = [calls EXCEPT ![c] =
                      [NewCall("clearCart", "deleteAll", user, "none", 0)
                         EXCEPT !.via = via]]
       /\ UNCHANGED <<localStorage, items>>

ClearCart(c) ==
  /\ FreeSlot(c)
  /\ clearBody(c, "ui")
  /\ UNCHANGED shopVars
  /\ UNCHANGED <<user, loading, cart_items, products, orders, order_items, loads,
                 events, lastOp>>

\* lines 295-298: the delete is answered; a failure is only logged.
ClearDeleteAll(c) ==
  /\ calls[c].pc = "deleteAll"
  /\ \E ok \in BOOLEAN :
       LET call == calls[c]
           rows == deleteAll(cart_items, user, call.user)
       IN IF ok
          THEN /\ cart_items' = rows
               /\ Announce(call.user, rows # cart_items)
               /\ calls' = [calls EXCEPT ![c].pc = "done"]
          ELSE /\ calls' = [calls EXCEPT ![c].pc = "done", ![c].err = TRUE,
                                         ![c].logged = TRUE]
               /\ UNCHANGED <<cart_items, events>>
  /\ UNCHANGED shopVars
  /\ UNCHANGED <<user, localStorage, items, loading, products, orders, order_items,
                 loads, lastOp>>

\* The promise of a finished call is settled (fulfilled, or rejected when the
\* call threw) and its slot is free again.
Return(c) ==
  /\ calls[c].pc \in {"done", "thrown"}
  /\ calls' = [calls EXCEPT ![c] = IdleCall]
  /\ lastOp' = calls[c].op
  /\ UNCHANGED shopVars
  /\ UNCHANGED <<user, localStorage, items, loading, cart_items, products, orders,
                 order_items, loads, events>>


\* --------------------------------------------------- orders, order_items
IsAdmin(uid) == uid = Admin     \* profiles.is_admin of the requesting user

OrderOf(orderId) == CHOOSE o \in orders : o.id = orderId

OwnsOrder(uid, orderId) ==
  \E o \in orders : o.id = orderId /\ o.user_id = uid

\* The policies on public.orders: SELECT and UPDATE for the owner and for
\* admins, INSERT for the owner; there is none for DELETE.
OrdersPolicy(cmd, uid, row) ==
  CASE cmd = "SELECT" -> uid = row.user_id \/ IsAdmin(uid)
    [] cmd = "INSERT" -> uid = row.user_id
    [] cmd = "UPDATE" -> uid = row.user_id \/ IsAdmin(uid)
    [] OTHER -> FALSE

\* A policy that lets the order's owner rewrite its lines.
OrderItemsPolicy_OwnerUpdates(cmd, uid, row) ==
  cmd \in {"SELECT", "INSERT", "UPDATE"} /\ OwnsOrder(uid, row.order_id)

\* The policies on public.order_items: SELECT for the order's owner and for
\* admins, INSERT for the order's owner; there is none for UPDATE or DELETE.
OrderItemsPolicy(cmd, uid, row) ==
  CASE cmd = "SELECT" -> OwnsOrder(uid, row.order_id) \/ IsAdmin(uid)
    [] cmd = "INSERT" -> OwnsOrder(uid, row.order_id)
    [] OTHER -> FALSE

\* "Admins can manage products" FOR ALL; "Anyone can view products".
ProductsPolicy(cmd, uid) ==
  CASE cmd = "SELECT" -> TRUE
    [] OTHER -> IsAdmin(uid)

OrderItem(id, orderId, productId, title, price, qty) ==
  [id |-> id, order_id |-> orderId, product_id |-> productId, title |-> title,
   unit_price |-> price, qty |-> qty, subtotal |-> price * qty]

\* Order codes generate_order_id() can return: one more than the orders a
\* behaviour places, so that a free one always exists.
OrderCodes == 0..MaxPlaced

\* A generate_order_id() that returns its first candidate unchecked.
generate_order_id_Unchecked == OrderCodes

\* The loop of generate_order_id ends with a code no stored order carries.
generate_order_id == {code \in OrderCodes : \A o \in orders : o.order_id # code}

\* Order placement, steps 1-3 in one transaction, then step 4: clearCart().
placeOrder(c, limit) ==
  /\ user # NoUser
  /\ items # <<>>
  /\ Cardinality(orders) < limit
  /\ FreeSlot(c)
  /\ \E code \in generate_order_id :
       LET id == Cardinality(orders) + 1 IN
       /\ orders' = orders \cup
            {[id |-> id, order_id |-> code, user_id |-> user,
              amount_total |-> totalAmount, status |-> "placed",
              payment_status |-> "pending"]}
       /\ order_items' = order_items \cup
            {OrderItem(<<id, i>>, id, items[i].product_id, items[i].title,
                       items[i].price, items[i].qty) : i \in 1..Len(items)}
  /\ clearBody(c, "placeOrder")
  /\ UNCHANGED shopVars
  /\ UNCHANGED <<user, loading, cart_items, products, loads, events, lastOp>>

PlaceOrder(c) == placeOrder(c, MaxOrders)

\* An admin-panel or hand-made request on public.products: the row is
\* rewritten when the policy admits the requester.
ProductsUpdate(uid, productId, edit) ==
  /\ ProductExists(productId)
  /\ products' = IF ProductsPolicy("UPDATE", uid)
                 THEN [products EXCEPT ![productId] = edit]
                 ELSE products
  /\ UNCHANGED shopVars
  /\ UNCHANGED <<user, localStorage, items, loading, cart_items, orders,
                 order_items, calls, loads, events, lastOp>>

\* A request on public.order_items made with uid's token. An insert the
\* policy rejects is an error; an update or delete reaches only the rows the
\* policy admits.
OrderItemsInsert(uid, orderId, productId, title, price, qty) ==
  LET extra == Cardinality({r \in order_items : r.id[2] < 0})
      row == OrderItem(<<orderId, -(extra + 1)>>, orderId, productId, title, price, qty)
  IN
  /\ \E o \in orders : o.id = orderId
  /\ ProductExists(productId)
  /\ extra < MaxExtraLines
  /\ IF OrderItemsPolicy("INSERT", uid, row)
     THEN order_items' = order_items \cup {row}
     ELSE UNCHANGED order_items
  /\ UNCHANGED shopVars
  /\ UNCHANGED <<user, localStorage, items, loading, cart_items, products, orders,
                 calls, loads, events, lastOp>>

OrderItemsUpdate(uid, id, title, price, qty) ==
  /\ \E r \in order_items : r.id = id
  /\ order_items' =
       {IF r.id = id /\ OrderItemsPolicy("UPDATE", uid, r)
          THEN [r EXCEPT !.title = title, !.unit_price = price, !.qty = qty,
                         !.subtotal = price * qty]
          ELSE r : r \in order_items}
  /\ UNCHANGED shopVars
  /\ UNCHANGED <<user, localStorage, items, loading, cart_items, products, orders,
                 calls, loads, events, lastOp>>

OrderItemsDelete(uid, id) ==
  /\ \E r \in order_items : r.id = id
  /\ order_items' =
       {r \in order_items : ~(r.id = id /\ OrderItemsPolicy("DELETE", uid, r))}
  /\ UNCHANGED shopVars
  /\ UNCHANGED <<user, localStorage, items, loading, cart_items, products, orders,
                 calls, loads, events, lastOp>>

\* A request on public.orders made with uid's token; order_items rows go with
\* a deleted order (ON DELETE CASCADE).
OrdersUpdate(uid, id, status, payment) ==
  /\ \E o \in orders : o.id = id
  /\ orders' =
       {IF o.id = id /\ OrdersPolicy("UPDATE", uid, o)
          THEN [o EXCEPT !.status = status, !.payment_status = payment]
          ELSE o : o \in orders}
  /\ UNCHANGED shopVars
  /\ UNCHANGED <<user, localStorage, items, loading, cart_items, products,
                 order_items, calls, loads, events, lastOp>>

OrdersDelete(uid, id) ==
  /\ \E o \in orders : o.id = id
  /\ orders' = {o \in orders : ~(o.id = id /\ OrdersPolicy("DELETE", uid, o))}
  /\ order_items' = {r \in order_items : \E o \in orders' : o.id = r.order_id}
  /\ UNCHANGED shopVars
  /\ UNCHANGED <<user, localStorage, items, loading, cart_items, products, calls,
                 loads, events, lastOp>>

\* ------------------------------------------------------- specifications
Progress ==
  \/ \E c \in CallIds : AddSelectProduct(c)
  \/ \E c \in CallIds : AddUpsert(c)
  \/ \E c \in CallIds : AddSelectTitle(c)
  \/ \E c \in CallIds : RemoveDelete(c)
  \/ \E c \in CallIds : UpdateUpdate(c)
  \/ \E c \in CallIds : ClearDeleteAll(c)
  \/ \E c \in CallIds : Return(c)
  \/ \E l \in 1..MaxLoads : LoadExecute(l)
  \/ \E l \in 1..MaxLoads : LoadResolve(l)
  \/ \E l \in 1..MaxLoads : RealtimeDeliver(l)

\* Every interleaving of calls, answers and reloads.
Next ==
  \/ \E u \in Users, c \in CallIds, l \in 1..MaxLoads : SignIn(u, c, l)
  \/ SignOut
  \/ \E c \in CallIds, p \in ProductIds, q \in AddQtys : AddToCart(c, p, q)
  \/ \E c \in CallIds, p \in ProductIds, q \in UpdateQtys : UpdateQuantity(c, p, q)
  \/ \E c \in CallIds, p \in ProductIds : RemoveFromCart(c, p)
  \/ \E c \in CallIds : ClearCart(c)
  \/ Progress

Spec == Init /\ [][Next]_vars

\* The cart API used one step at a time: a call, a sign-in or a sign-out starts
\* only once every earlier call has returned and every reload has resolved.
Quiet ==
  /\ AllIdle
  /\ \A l \in 1..MaxLoads : loads[l] = NoLoad
  /\ events = 0

NextSeq ==
  \/ Quiet /\ \E u \in Users, c \in CallIds, l \in 1..MaxLoads : SignIn(u, c, l)
  \/ Quiet /\ SignOut
  \/ Quiet /\ \E c \in CallIds, p \in ProductIds, q \in AddQtys : AddToCart(c, p, q)
  \/ Quiet /\ \E c \in CallIds, p \in ProductIds, q \in UpdateQtys :
                UpdateQuantity(c, p, q)
  \/ Quiet /\ \E c \in CallIds, p \in ProductIds : RemoveFromCart(c, p)
  \/ Quiet /\ \E c \in CallIds : ClearCart(c)
  \/ Progress

SpecSeq == Init /\ [][NextSeq]_vars

\* Checkout: a signed-in buyer fills the cart and places up to MaxOrders orders,
\* while products are edited and the order tables receive direct requests.
OrderIds == 1..MaxOrders

OrderItemIds == {r.id : r \in order_items}

NextOrder ==
  \/ Quiet /\ \E u \in Users, c \in CallIds, l \in 1..MaxLoads : SignIn(u, c, l)
  \/ Quiet /\ user # NoUser /\ Cardinality(orders) < MaxOrders
           /\ \E c \in CallIds, p \in ProductIds, q \in AddQtys : AddToCart(c, p, q)
  \/ Quiet /\ \E c \in CallIds : PlaceOrder(c)
  \/ Quiet /\ \E uid \in Actors, p \in ProductIds, e \in ProductEdits :
                ProductsUpdate(uid, p, e)
  \/ Quiet /\ \E uid \in Actors, o \in OrderIds, p \in ProductIds, e \in LineEdits :
                OrderItemsInsert(uid, o, p, e.title, e.price, e.qty)
  \/ Quiet /\ \E uid \in Actors, id \in OrderItemIds, e \in LineEdits :
                OrderItemsUpdate(uid, id, e.title, e.price, e.qty)
  \/ Quiet /\ \E uid \in Actors, id \in OrderItemIds : OrderItemsDelete(uid, id)
  \/ Quiet /\ \E uid \in Actors, o \in OrderIds :
                OrdersUpdate(uid, o, "confirmed", "paid")
  \/ Quiet /\ \E uid \in Actors, o \in OrderIds : OrdersDelete(uid, o)
  \/ \E c \in CallIds : AddUpsert(c)
  \/ \E c \in CallIds : AddSelectTitle(c)
  \/ \E c \in CallIds : ClearDeleteAll(c)
  \/ \E c \in CallIds : Return(c)
  \/ \E l \in 1..MaxLoads : LoadExecute(l)
  \/ \E l \in 1..MaxLoads : LoadResolve(l)
  \/ \E l \in 1..MaxLoads : RealtimeDeliver(l)

SpecOrder == Init /\ [][NextOrder]_vars


\* The same addToCart running in another session of user u: its upsert reaches
\* the table as one statement.
OtherSessionUpsert(u, productId, qty) ==
  /\ ProductExists(productId)
  /\ cart_items' = upsert(cart_items, CartRow(u, productId, qty))
  /\ Announce(u, TRUE)
  /\ UNCHANGED shopVars
  /\ UNCHANGED <<user, localStorage, items, loading, products, orders, order_items,
                 calls, loads, lastOp>>

\* Overlapping anonymous use: before the sign-in a cart call starts while
\* earlier ones still await their answers; the sign-in waits for them, and the
\* reconciliation then races with the upserts of the user's other sessions.
\* The signed-in user's own calls are made one at a time.
ConcProducts == {"A", "B"}

ConcQtys == {0, 1}

Anon == user = NoUser

\* No reload is awaited and no notification is undelivered.
LoadsQuiet ==
  /\ \A l \in 1..MaxLoads : loads[l] = NoLoad
  /\ events = 0

NextConc ==
  \/ AllIdle /\ \E u \in Users, c \in CallIds, l \in 1..MaxLoads : SignIn(u, c, l)
  \/ (Anon \/ Quiet) /\ \E c \in CallIds, p \in ConcProducts : AddToCart(c, p, 1)
  \/ (Anon \/ Quiet) /\ \E c \in CallIds, p \in ConcProducts, q \in ConcQtys :
                          UpdateQuantity(c, p, q)
  \/ (Anon \/ Quiet) /\ \E c \in CallIds, p \in ConcProducts : RemoveFromCart(c, p)
  \/ (Anon \/ Quiet) /\ \E c \in CallIds : ClearCart(c)
  \/ ~Anon /\ \E u \in Users, p \in ConcProducts : OtherSessionUpsert(u, p, 1)
  \/ Progress

SpecConc == Init /\ [][NextConc]_vars

\* Sign-out and sign-in while a reconciliation is still awaiting its answers:
\* the local cart is filled anonymously, one call at a time, the user signs
\* in, signs out before syncLocalCart has finished, and signs in again.
SyncRunning ==
  \E c \in CallIds : calls[c].op = "syncLocalCart" /\ calls[c].pc # "done"

UiIdle == \A c \in CallIds : calls[c].op \in {"idle", "syncLocalCart"}

NextSign ==
  \/ LoadsQuiet /\ UiIdle
       /\ \E u \in Users, c \in CallIds, l \in 1..MaxLoads : SignIn(u, c, l)
  \/ LoadsQuiet /\ SyncRunning /\ SignOut
  \/ Quiet /\ Anon /\ \E c \in CallIds, p \in ConcProducts : AddToCart(c, p, 1)
  \/ \E c \in CallIds : AddSelectProduct(c)
  \/ \E c \in CallIds : AddUpsert(c)
  \/ \E c \in CallIds : AddSelectTitle(c)
  \/ \E c \in CallIds : Return(c)
  \/ \E l \in 1..MaxLoads : LoadExecute(l)
  \/ \E l \in 1..MaxLoads : LoadResolve(l)
  \/ \E l \in 1..MaxLoads : RealtimeDeliver(l)

SpecSign == Init /\ [][NextSign]_vars

\* The cart API called with any integer quantity, one call at a time.
ArgQtys == {-1, 0, 1}

NextArgs ==
  \/ Quiet /\ \E u \in Users, c \in CallIds, l \in 1..MaxLoads : SignIn(u, c, l)
  \/ Quiet /\ \E c \in CallIds, p \in ConcProducts, q \in ArgQtys : AddToCart(c, p, q)
  \/ Quiet /\ \E c \in CallIds, p \in ConcProducts, q \in ArgQtys :
                UpdateQuantity(c, p, q)
  \/ Quiet /\ \E c \in CallIds, p \in ConcProducts : RemoveFromCart(c, p)
  \/ Quiet /\ \E c \in CallIds : ClearCart(c)
  \/ Progress

SpecArgs == Init /\ [][NextArgs]_vars

\* Repeated checkout: a signed-in buyer fills the cart and places up to
\* MaxPlaced orders, one call at a time.
NextIds ==
  \/ Quiet /\ \E u \in Users, c \in CallIds, l \in 1..MaxLoads : SignIn(u, c, l)
  \/ Quiet /\ ~Anon /\ Cardinality(orders) < MaxPlaced
           /\ \E c \in CallIds, p \in ConcProducts : AddToCart(c, p, 1)
  \/ Quiet /\ \E c \in CallIds : placeOrder(c, MaxPlaced)
  \/ \E c \in CallIds : AddUpsert(c)
  \/ \E c \in CallIds : AddSelectTitle(c)
  \/ \E c \in CallIds : ClearDeleteAll(c)
  \/ \E c \in CallIds : Return(c)
  \/ \E l \in 1..MaxLoads : LoadExecute(l)
  \/ \E l \in 1..MaxLoads : LoadResolve(l)
  \/ \E l \in 1..MaxLoads : RealtimeDeliver(l)

SpecIds == Init /\ [][NextIds]_vars

\* The text under 'picamart-cart' is replaced, by something other than the
\* cart functions, with one JSON.parse rejects.
StorageDamaged ==
  /\ localStorage # Unparsable
  /\ localStorage' = Unparsable
  /\ UNCHANGED shopVars
  /\ UNCHANGED <<user, items, loading, cart_items, products, orders, order_items,
                 calls, loads, events, lastOp>>

\* The cart API used one call at a time on a local store that can be damaged.
NextStore ==
  \/ Quiet /\ StorageDamaged
  \/ Quiet /\ \E u \in Users, c \in CallIds, l \in 1..MaxLoads : SignIn(u, c, l)
  \/ Quiet /\ SignOut
  \/ Quiet /\ \E c \in CallIds, p \in ConcProducts : AddToCart(c, p, 1)
  \/ Quiet /\ \E c \in CallIds, p \in ConcProducts, q \in ConcQtys :
                UpdateQuantity(c, p, q)
  \/ Quiet /\ \E c \in CallIds, p \in ConcProducts : RemoveFromCart(c, p)
  \/ Quiet /\ \E c \in CallIds : ClearCart(c)
  \/ Progress

SpecStore == Init /\ [][NextStore]_vars

\* ------------------------------------------------- vocabulary of the claims
LinesFor(lines, productId) ==
  {i \in 1..Len(lines) : lines[i].product_id = productId}

RowsFor(rows, u, productId) ==
  {r \in rows : r.user_id = u /\ r.product_id = productId}

RowQty(rows, u, productId) ==
  IF RowsFor(rows, u, productId) = {} THEN 0
  ELSE (CHOOSE r \in RowsFor(rows, u, productId) : TRUE).qty

OtherRows(rows, u, productId) == rows \ RowsFor(rows, u, productId)

Starts(c) == calls[c].pc = "idle" /\ calls'[c].pc # "idle"

Completes(c) == calls[c].pc # "done" /\ calls'[c].pc = "done"

\* C1: reconciliation is additive. Each line of the local cart that
\* syncLocalCart merges raises the user's remote quantity of that product by
\* the local quantity (a missing row counting as 0) and changes no other row,
\* and the local store is empty once syncLocalCart has finished. No other
\* writer runs during a reconciliation of SpecSeq, so this is the claim's
\* "previous remote quantity plus l" for every product of the local cart.
C1_SyncIsAdditive ==
  [][\A c \in CallIds :
       /\ (/\ calls[c].op = "syncLocalCart"
           /\ calls[c].pc = "upsert"
           /\ calls'[c].pc = "selectTitle")
          => /\ RowQty(cart_items', calls[c].user, calls[c].productId)
                  = RowQty(cart_items, calls[c].user, calls[c].productId)
                      + calls[c].qty
             /\ OtherRows(cart_items', calls[c].user, calls[c].productId)
                  = OtherRows(cart_items, calls[c].user, calls[c].productId)
       /\ (calls'[c].op = "syncLocalCart" /\ Completes(c))
          => localStorage' = NoText]_vars

\* C2: on the anonymous path an addToCart(p, q2) that finds the line an earlier
\* addToCart(p, q1) left (quantity q1) and whose product exists leaves exactly
\* one line for p, with quantity q1 + q2, and every other line as it was.
C2_AnonymousAddAccumulates ==
  \A c \in CallIds :
    (/\ calls[c].op = "addToCart"
     /\ calls[c].pc = "done"
     /\ calls[c].user = NoUser
     /\ calls[c].toast = "added")
    => LET lines == readLocal(localStorage)
           p == calls[c].productId
       IN /\ Cardinality(LinesFor(lines, p)) = 1
          /\ \A i \in LinesFor(lines, p) :
               lines[i].qty = QtyLine(calls[c].currentItems, p) + calls[c].qty
          /\ filterOut(lines, p) = filterOut(calls[c].currentItems, p)

\* Two addToCart calls for the same product in a row: the second has returned
\* "added" and found the first one's line.
C2_Witness ==
  \E c \in CallIds :
    /\ calls[c].op = "addToCart" /\ calls[c].pc = "done"
    /\ calls[c].user = NoUser /\ calls[c].toast = "added"
    /\ lastOp = "addToCart"
    /\ QtyLine(calls[c].currentItems, calls[c].productId) = 1
    /\ calls[c].qty = 1
    /\ QtyLine(readLocal(localStorage), calls[c].productId) = 2

RECURSIVE QtySum(_)
QtySum(lines) ==
  IF lines = <<>> THEN 0 ELSE Head(lines).qty + QtySum(Tail(lines))

RECURSIVE AmountSum(_)
AmountSum(lines) ==
  IF lines = <<>> THEN 0
  ELSE Head(lines).price * Head(lines).qty + AmountSum(Tail(lines))

PlacedIds(os) == {o.id : o \in os}

LinesOf(rows, orderId) == {r \in rows : r.order_id = orderId}

RECURSIVE SubtotalSum(_)
SubtotalSum(rows) ==
  IF rows = {} THEN 0
  ELSE LET r == CHOOSE x \in rows : TRUE
       IN r.subtotal + SubtotalSum(rows \ {r})

C5_OrderLinesFrozen ==
  [][\A r \in order_items :
       (\E o \in orders' : o.id = r.order_id)
       => \E r2 \in order_items' :
            /\ r2.id = r.id
            /\ r2.order_id = r.order_id
            /\ r2.title = r.title
            /\ r2.unit_price = r.unit_price
            /\ r2.qty = r.qty
            /\ r2.subtotal = r.subtotal]_vars

\* A placed line still carries the old title and price of a product that has
\* been edited since, in an order that has been confirmed and has received a
\* further line.
C5_Witness ==
  \E r \in order_items :
    /\ r.id[2] > 0
    /\ r.title = "tA" /\ r.unit_price = 100
    /\ products[r.product_id] = [title |-> "tX", price |-> 50]
    /\ OrderOf(r.order_id).status = "confirmed"
    /\ \E x \in LinesOf(order_items, r.order_id) : x.id[2] < 0

\* C6: updateQuantity(p, n) with n <= 0 does what removeFromCart(p) does.
\* Anonymous: the stored and the rendered lines become the stored lines
\* without p, at once. Authenticated: the same delete is sent, and once it is
\* answered without error the user's row for p is gone, no other row has
\* changed, and the rendered lines are untouched, as after removeFromCart.
C6_UpdateToZeroIsRemove ==
  [][\A c \in CallIds :
       /\ (Starts(c) /\ calls'[c].op = "updateQuantity" /\ calls'[c].qty <= 0)
          => IF user = NoUser
             THEN /\ calls'[c].pc = "done"
                  /\ localStorage' = JSONstringify(
                       filterOut(readLocal(localStorage), calls'[c].productId))
                  /\ items' = filterOut(readLocal(localStorage), calls'[c].productId)
                  /\ cart_items' = cart_items
             ELSE /\ calls'[c].pc = "delete"
                  /\ UNCHANGED <<localStorage, items, cart_items>>
       /\ (calls[c].op = "updateQuantity" /\ calls[c].qty <= 0 /\ Completes(c))
          => /\ calls[c].pc = "delete"
             /\ UNCHANGED <<localStorage, items>>
             /\ IF calls'[c].err
                THEN cart_items' = cart_items
                ELSE /\ RowsFor(cart_items', calls[c].user, calls[c].productId) = {}
                     /\ OtherRows(cart_items', calls[c].user, calls[c].productId)
                          = OtherRows(cart_items, calls[c].user, calls[c].productId)
                     /\ calls'[c].toast = "removed"]_vars

\* updateQuantity(p, 0) has removed the line of p from the local cart.
C6_Witness ==
  \E c \in CallIds :
    /\ calls[c].op = "updateQuantity" /\ calls[c].pc = "done"
    /\ calls[c].qty = 0
    /\ calls[c].user = NoUser
    /\ LinesFor(calls[c].currentItems, calls[c].productId) # {}
    /\ LinesFor(readLocal(localStorage), calls[c].productId) = {}
    /\ LinesFor(items, calls[c].productId) = {}

\* C7: removeFromCart(p) for a product without a line in the active cart
\* changes nothing and reports no error: the stored lines, the user's rows and
\* the rendered lines (hence the totals) are after the call what they were
\* before it.
C7_RemoveAbsentIsNoOp ==
  [][\A c \in CallIds :
       /\ (/\ Starts(c)
           /\ calls'[c].op = "removeFromCart"
           /\ user = NoUser
           /\ LinesFor(readLocal(localStorage), calls'[c].productId) = {})
          => /\ readLocal(localStorage') = readLocal(localStorage)
             /\ items' = items
             /\ ~calls'[c].err
       /\ (/\ calls[c].op = "removeFromCart"
           /\ calls[c].pc = "delete"
           /\ Completes(c)
           /\ ~calls'[c].err
           /\ RowsFor(cart_items, calls[c].user, calls[c].productId) = {})
          => /\ cart_items' = cart_items
             /\ items' = items]_vars

\* C8: once clearCart() has returned without a backend error the active
\* owner's cart is empty (anonymous: no stored key and no rendered line;
\* authenticated: no row of the user), whatever the cart was before and so
\* also when it was already empty; and clearCart never reports an error.
C8_ClearLeavesEmpty ==
  \A c \in CallIds :
    (calls[c].op = "clearCart" /\ calls[c].pc = "done")
    => /\ calls[c].toast = "none"
       /\ ~calls[c].err =>
            IF calls[c].user = NoUser
            THEN localStorage = NoText /\ items = <<>>
            ELSE \A r \in cart_items : r.user_id # calls[c].user

\* clearCart() has returned for the second time in a row for a signed-in user.
C8_Witness ==
  \E c \in CallIds :
    /\ calls[c].op = "clearCart" /\ calls[c].pc = "done"
    /\ ~calls[c].err
    /\ calls[c].user # NoUser
    /\ lastOp = "clearCart"

\* C9: updateQuantity(p, n) with n >= 1 sets the quantity of the line of p to
\* n, leaves the other lines alone and creates no line: on the anonymous path
\* at once, on the authenticated path once the update is answered without
\* error.
C9_UpdateSetsQuantity ==
  [][\A c \in CallIds :
       /\ (/\ Starts(c)
           /\ calls'[c].op = "updateQuantity"
           /\ calls'[c].qty >= 1
           /\ user = NoUser)
          => LET p == calls'[c].productId
                 before == readLocal(localStorage)
                 after == readLocal(localStorage')
             IN /\ calls'[c].pc = "done"
                /\ Len(after) = Len(before)
                /\ \A i \in 1..Len(before) :
                     /\ after[i].product_id = before[i].product_id
                     /\ after[i].qty =
                          IF before[i].product_id = p THEN calls'[c].qty
                          ELSE before[i].qty
                /\ items' = after
       /\ (/\ calls[c].op = "updateQuantity"
           /\ calls[c].pc = "update"
           /\ Completes(c)
           /\ ~calls'[c].err)
          => LET p == calls[c].productId
                 u == calls[c].user
             IN /\ RowQty(cart_items', u, p) =
                     IF RowsFor(cart_items, u, p) = {} THEN 0 ELSE calls[c].qty
                /\ (RowsFor(cart_items', u, p) = {}) = (RowsFor(cart_items, u, p) = {})
                /\ OtherRows(cart_items', u, p) = OtherRows(cart_items, u, p)]_vars

\* updateQuantity(p, 1) has lowered a stored quantity of 2 to 1.
C9_Witness ==
  \E c \in CallIds :
    /\ calls[c].op = "updateQuantity" /\ calls[c].pc = "done"
    /\ calls[c].user = NoUser
    /\ calls[c].qty = 1
    /\ QtyLine(calls[c].currentItems, calls[c].productId) = 2
    /\ QtyLine(readLocal(localStorage), calls[c].productId) = 1

\* C10: while nobody is signed in and no call is running, the rendered lines
\* are the lines of the local store: none when the store holds none, and never
\* the signed-out user's remote lines.
C10_AnonymousShowsLocalCart ==
  (user = NoUser /\ Quiet) => items = readLocal(localStorage)

\* C11: a reconciliation of a non-empty local cart leaves the local store
\* empty when it finishes, whether or not its merge writes failed. A merge
\* write that fails writes no row and does not end the reconciliation: it goes
\* on with the next local line, or finishes after the last one.
C11_SyncAlwaysEmptiesLocal ==
  [][\A c \in CallIds :
       /\ (/\ calls[c].op = "syncLocalCart"
           /\ calls[c].pc = "upsert"
           /\ calls'[c].pc # "selectTitle"
           /\ calls'[c] # calls[c])
          => /\ calls'[c].err /\ calls'[c].logged
             /\ cart_items' = cart_items
             /\ calls'[c].op = "syncLocalCart"
             /\ IF calls[c].idx < Len(calls[c].currentItems)
                THEN /\ calls'[c].pc = "upsert"
                     /\ calls'[c].idx = calls[c].idx + 1
                     /\ calls'[c].productId =
                          calls[c].currentItems[calls[c].idx + 1].product_id
                ELSE calls'[c].pc = "done"
       /\ (/\ calls'[c].op = "syncLocalCart"
           /\ calls'[c].currentItems # <<>>
           /\ Completes(c))
          => localStorage' = NoText]_vars

\* A reconciliation of two local lines has finished, both merges failed, and
\* the local store is empty.
C11_Witness ==
  \E c \in CallIds :
    /\ calls[c].op = "syncLocalCart" /\ calls[c].pc = "done"
    /\ calls[c].err
    /\ Len(calls[c].currentItems) = 2
    /\ calls[c].idx = 2
    /\ cart_items = {}
    /\ localStorage = NoText

SyncLines(c) ==
  IF calls[c].op = "syncLocalCart"
  THEN {calls[c].currentItems[i] : i \in 1..Len(calls[c].currentItems)}
  ELSE {}

\* C12: the local cart is consumed at most once. No line of the local cart is
\* taken by two reconciliations: a sign-in that follows another one with no
\* line added to the local cart in between starts no merge and so issues no
\* remote write.
C12_LocalCartConsumedOnce ==
  \A c, d \in CallIds : c # d => SyncLines(c) \cap SyncLines(d) = {}

\* C13: in every reachable state the local store holds at most one line per
\* product_id and the remote store at most one row per user and product_id,
\* however the anonymous calls overlap and however the reconciliation races
\* with the upserts of the user's other sessions.
C13_OneLinePerProduct ==
  /\ \A p \in ProductIds : Cardinality(LinesFor(readLocal(localStorage), p)) <= 1
  /\ \A r1, r2 \in cart_items :
       (r1.user_id = r2.user_id /\ r1.product_id = r2.product_id) => r1 = r2

\* A reconciliation has merged the local line A:2 and another session's
\* upsert of A has met the same key since: one row of A, with that session's 1.
C13_Witness ==
  \E c \in CallIds :
    /\ calls[c].op = "syncLocalCart" /\ calls[c].pc = "done" /\ ~calls[c].err
    /\ calls[c].productId = "A" /\ calls[c].qty = 2
    /\ cart_items = {CartRow(calls[c].user, "A", 1)}

\* C14: every cart line has qty >= 1, in the local store, in the remote store
\* and in the rendered view, whatever integer quantities addToCart and
\* updateQuantity are called with.
C14_QuantitiesArePositive ==
  /\ \A i \in 1..Len(readLocal(localStorage)) : readLocal(localStorage)[i].qty >= 1
  /\ \A r \in cart_items : r.qty >= 1
  /\ \A i \in 1..Len(items) : items[i].qty >= 1

StoredOrderIds(os) == {o.order_id : o \in os}

C16_AddMissingProductFails ==
  [][\A c \in CallIds :
       (/\ calls[c].op = "addToCart"
        /\ ~ProductExists(calls[c].productId)
        /\ Completes(c))
       => /\ UNCHANGED <<localStorage, cart_items, items>>
          /\ calls'[c].logged
          /\ calls'[c].toast = "error"]_vars

\* C17: every failed backend write of addToCart, updateQuantity,
\* removeFromCart or clearCart is caught inside the call (the call completes),
\* is logged, and shows an error notification.
C17_WriteFailuresAreSurfaced ==
  \A c \in CallIds :
    (/\ calls[c].op \in {"addToCart", "updateQuantity", "removeFromCart", "clearCart"}
     /\ calls[c].pc = "done"
     /\ calls[c].err)
    => calls[c].logged /\ calls[c].toast = "error"

\* C18: the local store fails soft. No operation that reads the stored value
\* throws, and with a value that is missing or does not parse an anonymous
\* addToCart that finds its product stores exactly the line it adds, as on an
\* empty cart.
C18_LocalStoreFailsSoft ==
  /\ [](/\ \A c \in CallIds : calls[c].pc # "thrown"
        /\ lastOp # "loadLocalCart threw")
  /\ [][\A c \in CallIds :
          (/\ calls[c].op = "addToCart" /\ calls[c].user = NoUser
           /\ localStorage \in {NoText, Unparsable}
           /\ Completes(c) /\ calls'[c].toast = "added")
          => localStorage' = JSONstringify(
               addLine(<<>>, calls[c].productId, products[calls[c].productId],
                       calls[c].qty))]_vars

\* C19: on the authenticated path addToCart(p, q) sets the quantity. When its
\* upsert is accepted the user has exactly one row of p, with qty q whatever
\* the row's qty was before, also when there was none, and no other row has
\* changed; when it is rejected no row has changed.
C19_AuthenticatedAddSets ==
  [][\A c \in CallIds :
       (calls[c].op = "addToCart" /\ calls[c].pc = "upsert" /\ calls'[c] # calls[c])
       => LET u == calls[c].user
              p == calls[c].productId
          IN IF calls'[c].pc = "selectTitle"
             THEN /\ RowsFor(cart_items', u, p) = {CartRow(u, p, calls[c].qty)}
                  /\ OtherRows(cart_items', u, p) = OtherRows(cart_items, u, p)
             ELSE cart_items' = cart_items]_vars

\* addToCart(A, 1) of a signed-in user whose row of A had qty 2 (as rendered):
\* the row now has qty 1.
C19_Witness ==
  \E c \in CallIds :
    /\ calls[c].op = "addToCart" /\ calls[c].pc = "selectTitle"
    /\ calls[c].user # NoUser
    /\ calls[c].productId = "A" /\ calls[c].qty = 1
    /\ items = <<CartItem("A", "tA", 100, 2)>>
    /\ cart_items = {CartRow(calls[c].user, "A", 1)}

\* C20: anonymous mutations serialize. An anonymous addToCart(p, q) that was
\* issued while another mutation was still running takes effect on the cart
\* the other one has left: when it completes, the stored lines are the lines
\* stored just before with q added to p, so that the final cart is the result
\* of the two calls in some order and neither effect is lost.
C20_AnonymousMutationsSerialize ==
  [][\A c \in CallIds :
       (/\ calls[c].op = "addToCart" /\ calls[c].user = NoUser
        /\ Completes(c) /\ calls'[c].toast = "added")
       => readLocal(localStorage') =
            addLine(readLocal(localStorage), calls[c].productId,
                    products[calls[c].productId], calls[c].qty)]_vars

\* ============================================================ storefront
\* ------------------------------------------------ ProductGrid (catalog)
MaxBanners == 3      \* banner rows the table can hold

\* The list of the catch block of loadProducts (lines 387-408).
FallbackProducts ==
  <<[id |-> "1", title |-> "Premium Smartphone", price |-> 29999],
    [id |-> "2", title |-> "Gaming Laptop", price |-> 79999]>>

\* The rows createDefaultProducts inserts (lines 415-434).
defaultProducts ==
  <<[title |-> "Premium Smartphone", price |-> 29999],
    [title |-> "Gaming Laptop", price |-> 79999]>>

\* select('*').eq('in_stock', true).order('created_at'): the rows of the
\* table, every one in stock, in the order of their creation.
selectProducts ==
  LET present(p) == products[p] # NoProduct
      ids == SelectSeq(<<"A", "B", "X">>, present)
  IN [i \in 1..Len(ids) |->
        [id |-> ids[i], title |-> products[ids[i]].title,
         price |-> products[ids[i]].price]]

\* lines 414-447, reached on an empty read: insert the default rows with the
\* session's token and show what the insert returns; a rejected or failed
\* insert is logged and the list shown stays as it was.
createDefaultProducts(insertOk) ==
  IF insertOk /\ ProductsPolicy("INSERT", user)
  THEN [rows |-> [products EXCEPT !["A"] = defaultProducts[1],
                                  !["B"] = defaultProducts[2]],
        shown |-> <<[id |-> "A", title |-> defaultProducts[1].title,
                     price |-> defaultProducts[1].price],
                    [id |-> "B", title |-> defaultProducts[2].title,
                     price |-> defaultProducts[2].price]>>]
  ELSE [rows |-> products, shown |-> ProductGrid.products]

\* lines 367-412, on mount and on every notification of the products channel.
loadProducts ==
  /\ \E readOk \in BOOLEAN, insertOk \in BOOLEAN :
       IF ~readOk
       THEN /\ ProductGrid' = [products |-> FallbackProducts, loading |-> FALSE]
            /\ products' = products
            /\ lastOp' = "loadProducts: read failed"
       ELSE IF selectProducts = <<>>
       THEN /\ ProductGrid' = [products |-> createDefaultProducts(insertOk).shown,
                               loading |-> FALSE]
            /\ products' = createDefaultProducts(insertOk).rows
            /\ lastOp' = "loadProducts: empty read"
       ELSE /\ ProductGrid' = [products |-> selectProducts, loading |-> FALSE]
            /\ products' = products
            /\ lastOp' = "loadProducts: rows"
  /\ UNCHANGED <<user, localStorage, items, loading, cart_items, orders,
                 order_items, calls, loads, events, BannerCarousel, banners, rpcs>>

\* --------------------------------------------- BannerCarousel (banners)
BannerIds == 1..MaxBanners

\* A row of public.banners; display_order follows the id.
Banner(id, active) ==
  [id |-> id, title |-> "banner", display_order |-> id, active |-> active]

\* The banner of the catch block of loadBanners (lines 76-82).
FallbackBanners ==
  <<[id |-> 0, title |-> "Durga Puja Special - 60% Off", display_order |-> 1]>>

\* "Anyone can view active banners"; "Admins can manage banners" FOR ALL.
BannersPolicy(cmd, uid, row) ==
  CASE cmd = "SELECT" -> row.active \/ IsAdmin(uid)
    [] OTHER -> IsAdmin(uid)

\* select('*').eq('active', true).order('display_order')
selectBanners ==
  LET shown(i) == \E b \in banners :
                    b.id = i /\ b.active /\ BannersPolicy("SELECT", user, b)
      ids == SelectSeq([i \in 1..MaxBanners |-> i], shown)
  IN [i \in 1..Len(ids) |->
        [id |-> ids[i], title |-> "banner", display_order |-> ids[i]]]

\* lines 88-110, reached on an empty read: insert the default banner with the
\* session's token and show what the insert returns; a rejected or failed
\* insert is logged and the list shown stays as it was.
createDefaultBanners(insertOk) ==
  IF insertOk /\ BannersPolicy("INSERT", user, Banner(1, TRUE))
              /\ \A b \in banners : b.id # 1
  THEN [rows |-> banners \cup {Banner(1, TRUE)},
        shown |-> <<[id |-> 1, title |-> "banner", display_order |-> 1]>>]
  ELSE [rows |-> banners, shown |-> BannerCarousel.banners]

\* lines 56-86, on mount and on every notification of the banners channel.
\* No branch touches currentIndex.
loadBanners ==
  /\ \E readOk \in BOOLEAN, insertOk \in BOOLEAN :
       IF ~readOk
       THEN /\ BannerCarousel' = [BannerCarousel EXCEPT !.banners = FallbackBanners,
                                                        !.loading = FALSE]
            /\ banners' = banners
            /\ lastOp' = "loadBanners: read failed"
       ELSE IF selectBanners = <<>>
       THEN /\ BannerCarousel' =
                 [BannerCarousel EXCEPT !.banners = createDefaultBanners(insertOk).shown,
                                        !.loading = FALSE]
            /\ banners' = createDefaultBanners(insertOk).rows
            /\ lastOp' = "loadBanners: empty read"
       ELSE /\ BannerCarousel' = [BannerCarousel EXCEPT !.banners = selectBanners,
                                                        !.loading = FALSE]
            /\ banners' = banners
            /\ lastOp' = "loadBanners: rows"
  /\ UNCHANGED <<user, localStorage, items, loading, cart_items, products, orders,
                 order_items, calls, loads, events, ProductGrid, rpcs>>

\* Requests on public.banners made with uid's token (the admin panel leaves
\* banner management to the database): rows are written where the policy
\* admits it.
BannersInsert(uid, id) ==
  /\ \A b \in banners : b.id # id
  /\ banners' = IF BannersPolicy("INSERT", uid, Banner(id, TRUE))
                THEN banners \cup {Banner(id, TRUE)} ELSE banners
  /\ UNCHANGED <<user, localStorage, items, loading, cart_items, products, orders,
                 order_items, calls, loads, events, lastOp, ProductGrid,
                 BannerCarousel, rpcs>>

BannersDelete(uid, id) ==
  /\ \E b \in banners : b.id = id
  /\ banners' = {b \in banners : ~(b.id = id /\ BannersPolicy("DELETE", uid, b))}
  /\ UNCHANGED <<user, localStorage, items, loading, cart_items, products, orders,
                 order_items, calls, loads, events, lastOp, ProductGrid,
                 BannerCarousel, rpcs>>

\* The controls are rendered once loaded (line 126), with more than one
\* banner (line 163).
ControlsShown == ~BannerCarousel.loading /\ Len(BannerCarousel.banners) > 1

\* lines 50 and 117: (prev + 1) % banners.length
rotate(prev, length) == (prev + 1) % length

setCurrentIndex(index) ==
  /\ BannerCarousel' = [BannerCarousel EXCEPT !.currentIndex = index]
  /\ UNCHANGED <<user, localStorage, items, loading, cart_items, products, orders,
                 order_items, calls, loads, events, lastOp, ProductGrid, banners,
                 rpcs>>

\* lines 112-114
goToPrevious ==
  /\ ControlsShown
  /\ setCurrentIndex((BannerCarousel.currentIndex - 1 + Len(BannerCarousel.banners))
                       % Len(BannerCarousel.banners))

\* lines 116-118
goToNext ==
  /\ ControlsShown
  /\ setCurrentIndex(rotate(BannerCarousel.currentIndex, Len(BannerCarousel.banners)))

\* line 191: the dot of banner `index` (0-based).
dotClick(index) ==
  /\ ControlsShown
  /\ index < Len(BannerCarousel.banners)
  /\ setCurrentIndex(index)

\* lines 46-54: the interval runs while banners.length > 1.
autoRotate ==
  /\ Len(BannerCarousel.banners) > 1
  /\ setCurrentIndex(rotate(BannerCarousel.currentIndex, Len(BannerCarousel.banners)))

\* The storefront page of a visitor (anonymous, signed in, or an admin) over
\* a database whose products table is empty or seeded; banner rows are
\* managed by any actor's direct requests.
InitStorefront ==
  /\ InitShop
  /\ user \in {NoUser} \cup Actors
  /\ localStorage = NoText
  /\ items = <<>>
  /\ loading = FALSE
  /\ cart_items = {}
  /\ products \in {[p \in ProductIds |-> NoProduct],
                   [p \in ProductIds |->
                      IF p = "A" THEN [title |-> "tA", price |-> 100]
                      ELSE IF p = "B" THEN [title |-> "tB", price |-> 50]
                      ELSE NoProduct]}
  /\ orders = {}
  /\ order_items = {}
  /\ calls = [c \in CallIds |-> IdleCall]
  /\ loads = [l \in 1..MaxLoads |-> NoLoad]
  /\ events = 0
  /\ lastOp = "none"

NextStorefront ==
  \/ loadProducts
  \/ loadBanners
  \/ \E uid \in Actors, id \in BannerIds : BannersInsert(uid, id)
  \/ \E uid \in Actors, id \in BannerIds : BannersDelete(uid, id)
  \/ goToPrevious
  \/ goToNext
  \/ \E index \in 0..(MaxBanners - 1) : dotClick(index)
  \/ autoRotate

SpecStorefront == InitStorefront /\ [][NextStorefront]_vars

\* The catalog shows the default products.
ShowsDefaultProducts ==
  /\ Len(ProductGrid.products) = Len(defaultProducts)
  /\ \A i \in 1..Len(defaultProducts) :
       ProductGrid.products[i].title = defaultProducts[i].title

ShowsDefaultBanner == Len(BannerCarousel.banners) = 1

\* C21: whenever the product or banner read returned an empty list or failed,
\* the view shows the default set and never an empty catalog or carousel.
C21_EmptyOrFailedReadShowsDefaults ==
  /\ lastOp \in {"loadProducts: read failed", "loadProducts: empty read"}
       => ShowsDefaultProducts
  /\ lastOp \in {"loadBanners: read failed", "loadBanners: empty read"}
       => ShowsDefaultBanner

\* An ordinary visitor's read of the empty products table leaves the catalog empty.
C21_EmptyCatalogShown ==
  /\ lastOp = "loadProducts: empty read"
  /\ ~IsAdmin(user)
  /\ ProductGrid.products = <<>>

\* C30: with a non-empty banner list the current index is within the list.
C30_IndexWithinBanners ==
  Len(BannerCarousel.banners) > 0 =>
    /\ 0 <= BannerCarousel.currentIndex
    /\ BannerCarousel.currentIndex < Len(BannerCarousel.banners)

\* A reload that returned fewer banners left the index past the end of the list.
C30_IndexPastEnd ==
  /\ lastOp = "loadBanners: rows"
  /\ Len(BannerCarousel.banners) > 0
  /\ BannerCarousel.currentIndex >= Len(BannerCarousel.banners)

\* C22: a placed order keeps its order_id, user_id and amount_total, and an
\* update request of a user who is not an admin changes no order (status and
\* payment_status are the admin's to change).
C22_OrderFieldsGuarded ==
  [][/\ \A o \in orders : \A n \in orders' :
          n.id = o.id => /\ n.order_id = o.order_id
                         /\ n.user_id = o.user_id
                         /\ n.amount_total = o.amount_total
     /\ \A uid \in Actors, id \in OrderIds :
          (~IsAdmin(uid) /\ OrdersUpdate(uid, id, "confirmed", "paid"))
            => orders' = orders]_vars

\* The buyer's own order, marked confirmed and paid: the state the buyer's own update
\* request leaves.
C22_BuyerMarkedPaid ==
  \E o \in orders : o.user_id \in Users /\ o.payment_status = "paid"

\* ------------------------------------------- requests on public.cart_items
\* Requests made with uid's token on the rows of `owner`, from any client:
\* an upsert the policy rejects is an error, an update or delete reaches only
\* the rows the policy admits. lastOp notes a request on someone else's rows.
NoteRequest(uid, owner) ==
  lastOp' = IF uid = owner THEN lastOp ELSE "cart request on another user's rows"

CartItemsUpsert(uid, owner, productId, qty) ==
  /\ ProductExists(productId)
  /\ cart_items' = IF CartPolicy(uid, CartRow(owner, productId, qty))
                   THEN upsert(cart_items, CartRow(owner, productId, qty))
                   ELSE cart_items
  /\ Announce(owner, cart_items' # cart_items)
  /\ NoteRequest(uid, owner)
  /\ UNCHANGED shopVars
  /\ UNCHANGED <<user, localStorage, items, loading, products, orders, order_items,
                 calls, loads>>

CartItemsUpdate(uid, owner, productId, qty) ==
  /\ cart_items' = updateQty(cart_items, uid, owner, productId, qty)
  /\ Announce(owner, cart_items' # cart_items)
  /\ NoteRequest(uid, owner)
  /\ UNCHANGED shopVars
  /\ UNCHANGED <<user, localStorage, items, loading, products, orders, order_items,
                 calls, loads>>

CartItemsDelete(uid, owner, productId) ==
  /\ cart_items' = deleteLine(cart_items, uid, owner, productId)
  /\ Announce(owner, cart_items' # cart_items)
  /\ NoteRequest(uid, owner)
  /\ UNCHANGED shopVars
  /\ UNCHANGED <<user, localStorage, items, loading, products, orders, order_items,
                 calls, loads>>

\* Two carts side by side: the session's user works through the cart API, one
\* call at a time, while every actor sends requests on cart_items aimed at its
\* own rows and at the other's, between the session's calls.
RlsProducts == {"A", "B"}

NextRls ==
  \/ Quiet /\ \E u \in Users, c \in CallIds, l \in 1..MaxLoads : SignIn(u, c, l)
  \/ Quiet /\ user # NoUser
           /\ \E c \in CallIds, p \in RlsProducts : AddToCart(c, p, 1)
  \/ Quiet /\ user # NoUser
           /\ \E c \in CallIds, p \in RlsProducts : UpdateQuantity(c, p, MaxQty)
  \/ Quiet /\ user # NoUser
           /\ \E c \in CallIds, p \in RlsProducts : RemoveFromCart(c, p)
  \/ Quiet /\ user # NoUser /\ \E c \in CallIds : ClearCart(c)
  \/ Quiet /\ \E uid \in Actors, owner \in Actors, p \in RlsProducts, q \in 1..MaxQty :
                CartItemsUpsert(uid, owner, p, q)
  \/ Quiet /\ \E uid \in Actors, owner \in Actors, p \in RlsProducts :
                CartItemsUpdate(uid, owner, p, MaxQty)
  \/ Quiet /\ \E uid \in Actors, owner \in Actors, p \in RlsProducts :
                CartItemsDelete(uid, owner, p)
  \/ \E c \in CallIds : AddUpsert(c)
  \/ \E c \in CallIds : AddSelectTitle(c)
  \/ \E c \in CallIds : RemoveDelete(c)
  \/ \E c \in CallIds : UpdateUpdate(c)
  \/ \E c \in CallIds : ClearDeleteAll(c)
  \/ \E c \in CallIds : Return(c)
  \/ \E l \in 1..MaxLoads : LoadExecute(l)
  \/ \E l \in 1..MaxLoads : LoadResolve(l)
  \/ \E l \in 1..MaxLoads : RealtimeDeliver(l)

SpecRls == Init /\ [][NextRls]_vars

ForeignRows(rows, u) == {r \in rows : r.user_id # u}

\* The user a call of slot c runs for, in a step that starts or continues it.
CallUser(c) == IF calls[c].pc = "idle" THEN calls'[c].user ELSE calls[c].user

\* C23: cart isolation. No row is visible to a token other than its owner's;
\* a request made with U's token, and every step of a cart call made for U,
\* leaves the rows of every other user as they were; and a load made for U
\* returns lines of U's rows only.
C23_CartIsolation ==
  /\ [](\A uid \in Actors : \A r \in cart_items :
          CartPolicy(uid, r) => r.user_id = uid)
  /\ [][/\ \A uid \in Actors, owner \in Actors, p \in RlsProducts, q \in 1..MaxQty :
             (\/ CartItemsUpsert(uid, owner, p, q)
              \/ CartItemsUpdate(uid, owner, p, q)
              \/ CartItemsDelete(uid, owner, p))
               => ForeignRows(cart_items', uid) = ForeignRows(cart_items, uid)
        /\ \A c \in CallIds :
             calls'[c] # calls[c]
               => ForeignRows(cart_items', CallUser(c))
                    = ForeignRows(cart_items, CallUser(c))
        /\ \A l \in 1..MaxLoads :
             (loads'[l] # loads[l] /\ loads'[l].state = "ok")
               => \A i \in 1..Len(loads'[l].data) :
                    \E r \in cart_items :
                      /\ r.user_id = loads[l].user
                      /\ r.product_id = loads'[l].data[i].product_id
                      /\ r.qty = loads'[l].data[i].qty]_vars

\* Both users hold a row of product A, with different quantities, a request on
\* the other user's rows has just been answered, and the session shows its own.
C23_Witness ==
  /\ lastOp = "cart request on another user's rows"
  /\ \E r \in cart_items : r.user_id = "u1" /\ r.product_id = "A" /\ r.qty = 1
  /\ \E r \in cart_items : r.user_id = Admin /\ r.product_id = "A" /\ r.qty = MaxQty
  /\ user = "u1"
  /\ Len(items) = 1 /\ items[1].product_id = "A" /\ items[1].qty = 1

\* The rendered lines are the given user's remote rows, one line per row.
ShowsRows(lines, u) ==
  /\ {lines[i] : i \in 1..Len(lines)} = selectCart(cart_items, u, u)
  /\ Len(lines) = Cardinality(selectCart(cart_items, u, u))

\* C24: in the authenticated state, once the rows have stopped changing and
\* every issued load has resolved, the rendered lines equal the user's remote
\* rows: the load that resolves last, with an answer, with no call running
\* and no notification pending, leaves the view equal to the rows, whatever
\* the order in which the overlapping loads resolved.
C24_SettledViewShowsRows ==
  [][\A l \in 1..MaxLoads :
       (user # NoUser /\ loads[l].state = "ok" /\ loads'[l] = NoLoad /\ Quiet')
         => ShowsRows(items', user)]_vars

\* Everything has settled on a view that lacks a row of the signed-in user.
C24_StaleViewSettled ==
  /\ user # NoUser
  /\ Quiet
  /\ items = <<>>
  /\ cart_items # {}
  /\ lastOp = "syncLocalCart"

\* The operation a call of slot c performs, in a step that starts or continues it.
CallOp(c) == IF calls[c].pc = "idle" THEN calls'[c].op ELSE calls[c].op

CartOps == {"addToCart", "updateQuantity", "removeFromCart", "clearCart"}

\* C25: the active store follows the authentication state alone. No step of
\* addToCart, updateQuantity, removeFromCart or clearCart invoked anonymously
\* writes cart_items; no step of these four invoked by a signed-in user writes
\* the local store; the reconciliation writes the local store only to clear it.
C25_StoreFollowsAuthState ==
  [][\A c \in CallIds :
       calls'[c] # calls[c] =>
         /\ (CallOp(c) \in CartOps /\ CallUser(c) = NoUser)
              => cart_items' = cart_items
         /\ (CallOp(c) \in CartOps /\ CallUser(c) # NoUser)
              => localStorage' = localStorage
         /\ CallOp(c) = "syncLocalCart"
              => localStorage' \in {localStorage, NoText}]_vars

\* The four operations have each completed in both states: a signed-in call
\* has just returned with rows in the remote cart, after an anonymous session
\* that left lines in the local store for the reconciliation to clear.
C25_Witness ==
  /\ user # NoUser
  /\ lastOp \in CartOps
  /\ cart_items # {}
  /\ localStorage = NoText
  /\ items # <<>>

\* C27: with the remote cart as the active store, a clearCart that completes
\* without an error leaves the rendered cart empty in the same step, before
\* any realtime reload.
C27_ClearEmptiesViewAtOnce ==
  [][\A c \in CallIds :
       (/\ calls[c].op = "clearCart"
        /\ calls[c].user # NoUser
        /\ Completes(c)
        /\ ~calls'[c].err)
         => items' = <<>>]_vars

\* A signed-in clearCart has returned, the rows are gone, the lines still shown.
C27_ClearedButShown ==
  /\ user # NoUser
  /\ lastOp = "clearCart"
  /\ cart_items = {}
  /\ items # <<>>

\* ------------------------------------------- generate_order_id, statement by statement
MaxTime == 1         \* seconds of the clock explored: 0..MaxTime
MaxRandom == 1       \* FLOOR(RANDOM() * 100) explored: 0..MaxRandom

Timestamps == 0..MaxTime

RandomDigits == 0..MaxRandom

\* LPAD((EXTRACT(EPOCH FROM NOW()) * 1000)::BIGINT::TEXT, 10, '0') keeps the
\* first ten digits of the thirteen-digit millisecond count, the second;
\* the random digits are appended and RIGHT(new_id, 12) keeps all twelve.
new_id(now, digits) == now * (MaxRandom + 1) + digits

\* The second an identifier was made in.
SecondOf(orderId) == orderId \div (MaxRandom + 1)

\* The clock so far: the latest second a stored order or a running call has seen.
LatestTime ==
  LET seen == {SecondOf(o.order_id) : o \in orders}
                \cup {rpcs[t].now : t \in {x \in Txns : rpcs[x] # NoRpc}}
  IN IF seen = {} THEN 0 ELSE CHOOSE m \in seen : \A n \in seen : n <= m

\* A transaction calls generate_order_id(): NOW() is the transaction's start
\* time and stays the same for the whole call.
RpcBegin(t, now) ==
  /\ rpcs[t] = NoRpc
  /\ now \in Timestamps
  /\ now \in {LatestTime, LatestTime + 1}
  /\ rpcs' = [rpcs EXCEPT ![t] = [pc |-> "generate", now |-> now]]
  /\ UNCHANGED <<user, localStorage, items, loading, cart_items, products, orders,
                 order_items, calls, loads, events, lastOp, ProductGrid,
                 BannerCarousel, banners>>

\* lines 39-42: a candidate from the timestamp and two random digits.
RpcGenerate(t, digits) ==
  /\ rpcs[t].pc = "generate"
  /\ rpcs' = [rpcs EXCEPT ![t] = [pc |-> "check", now |-> rpcs[t].now,
                                  new_id |-> new_id(rpcs[t].now, digits)]]
  /\ UNCHANGED <<user, localStorage, items, loading, cart_items, products, orders,
                 order_items, calls, loads, events, lastOp, ProductGrid,
                 BannerCarousel, banners>>

\* lines 44-55: SELECT EXISTS over the stored orders; leave the loop and return
\* the candidate when none carries it, go round again otherwise.
RpcCheck(t) ==
  /\ rpcs[t].pc = "check"
  /\ LET exists_check == \E o \in orders : o.order_id = rpcs[t].new_id IN
     rpcs' = [rpcs EXCEPT ![t] =
                IF ~exists_check THEN [rpcs[t] EXCEPT !.pc = "returned"]
                ELSE [pc |-> "generate", now |-> rpcs[t].now]]
  /\ UNCHANGED <<user, localStorage, items, loading, cart_items, products, orders,
                 order_items, calls, loads, events, lastOp, ProductGrid,
                 BannerCarousel, banners>>

\* The order is inserted with the identifier returned: order_id is UNIQUE, so
\* the insert is rejected when a stored order carries it already.
InsertOrder(t, u) ==
  /\ rpcs[t].pc = "returned"
  /\ LET row == [id |-> Cardinality(orders) + 1, order_id |-> rpcs[t].new_id,
                 user_id |-> u, amount_total |-> 0, status |-> "placed",
                 payment_status |-> "pending"]
         accepted == /\ OrdersPolicy("INSERT", u, row)
                     /\ \A o \in orders : o.order_id # row.order_id
     IN /\ orders' = IF accepted THEN orders \cup {row} ELSE orders
        /\ rpcs' = [rpcs EXCEPT ![t].pc = IF accepted THEN "inserted" ELSE "rejected"]
  /\ UNCHANGED <<user, localStorage, items, loading, cart_items, products,
                 order_items, calls, loads, events, lastOp, ProductGrid,
                 BannerCarousel, banners>>

\* The transaction is over.
RpcEnd(t) ==
  /\ rpcs[t].pc \in {"inserted", "rejected"}
  /\ rpcs' = [rpcs EXCEPT ![t] = NoRpc]
  /\ UNCHANGED <<user, localStorage, items, loading, cart_items, products, orders,
                 order_items, calls, loads, events, lastOp, ProductGrid,
                 BannerCarousel, banners>>

\* Order placements of several transactions, each statement a step.
NextGen ==
  \/ \E t \in Txns, now \in Timestamps : RpcBegin(t, now)
  \/ \E t \in Txns, digits \in RandomDigits : RpcGenerate(t, digits)
  \/ \E t \in Txns : RpcCheck(t)
  \/ \E t \in Txns, u \in Users : InsertOrder(t, u)
  \/ \E t \in Txns : RpcEnd(t)

SpecGen == Init /\ [][NextGen]_vars

\* The same, with every statement of a running call executed in the end and
\* every value of the random digits drawn again and again.
FairSpecGen ==
  /\ SpecGen
  /\ \A t \in Txns :
       /\ WF_vars(RpcCheck(t))
       /\ \A digits \in RandomDigits : SF_vars(RpcGenerate(t, digits))

\* C26: two concurrent calls of generate_order_id, neither order inserted
\* before the other's check, never return the same identifier, and no order
\* insert is rejected for its identifier.
C26_ConcurrentIdsDiffer ==
  /\ \A t1, t2 \in Txns :
       (t1 # t2 /\ rpcs[t1].pc = "returned" /\ rpcs[t2].pc = "returned")
         => rpcs[t1].new_id # rpcs[t2].new_id
  /\ \A t \in Txns : rpcs[t].pc # "rejected"

\* One of two simultaneous placements is stored, the other rejected for
\* carrying the same identifier.
C26_SecondPlacementRejected ==
  \E t1, t2 \in Txns :
    /\ rpcs[t1].pc = "inserted"
    /\ rpcs[t2].pc = "rejected"
    /\ rpcs[t1].new_id = rpcs[t2].new_id

\* C28: every call of generate_order_id returns in the end.
C28_GenerateReturns ==
  \A t \in Txns :
    (rpcs[t].pc \in {"generate", "check"}) ~> (rpcs[t].pc = "returned")

\* A call whose second has every identifier taken: no candidate passes the check.
C28_NoFreeCandidate ==
  \E t \in Txns :
    /\ rpcs[t].pc = "generate"
    /\ \A digits \in RandomDigits :
         \E o \in orders : o.order_id = new_id(rpcs[t].now, digits)

\* Sign-out during a reconciliation, then anonymous use: the local cart is
\* filled anonymously, the user signs in, signs out before syncLocalCart has
\* finished, and goes on adding to the local cart, one call at a time, while
\* the reconciliation still awaits its answers.
NextOut ==
  \/ Quiet /\ \E u \in Users, c \in CallIds, l \in 1..MaxLoads : SignIn(u, c, l)
  \/ LoadsQuiet /\ SyncRunning /\ SignOut
  \/ LoadsQuiet /\ UiIdle /\ Anon
       /\ \E c \in CallIds, p \in ConcProducts : AddToCart(c, p, 1)
  \/ \E c \in CallIds : AddSelectProduct(c)
  \/ \E c \in CallIds : AddUpsert(c)
  \/ \E c \in CallIds : AddSelectTitle(c)
  \/ \E c \in CallIds : Return(c)
  \/ \E l \in 1..MaxLoads : LoadExecute(l)
  \/ \E l \in 1..MaxLoads : LoadResolve(l)
  \/ \E l \in 1..MaxLoads : RealtimeDeliver(l)

SpecOut == Init /\ [][NextOut]_vars

\* The quantity of product p the local store holds beyond what the running
\* reconciliation read when it started.
AddedSince(call, p) ==
  QtyLine(readLocal(localStorage), p) - QtyLine(call.currentItems, p)

\* C29: a reconciliation that finishes after the user has signed out leaves in
\* the local store what was added to it anonymously since the reconciliation
\* read it.
C29_SyncKeepsLaterLines ==
  [][\A c \in CallIds :
       (calls[c].op = "syncLocalCart" /\ Completes(c) /\ user = NoUser)
         => \A p \in ConcProducts :
              AddedSince(calls[c], p) > 0
                => QtyLine(readLocal(localStorage'), p) >= AddedSince(calls[c], p)]_vars

\* The reconciliation has finished after the sign-out; the line an anonymous
\* addToCart stored meanwhile is gone from the local store but still shown.
C29_LaterLineDeleted ==
  /\ user = NoUser
  /\ localStorage = NoText
  /\ items # <<>>
  /\ \E c \in CallIds : calls[c].op = "syncLocalCart" /\ calls[c].pc = "done"
  /\ lastOp = "addToCart"
====
